---- MODULE Spec2Model ----
(***************************************************************************)
(* Model of nucypher/blockchain/eth/chains.py: the Blockchain singleton    *)
(* (connect / disconnect / direct construction) and the polling state      *)
(* machine of Blockchain.sync.                                             *)
(*                                                                         *)
(* Collaborators (the web3 node, the provider process, the registry) are   *)
(* the environment: every read of self.peers, self.syncing and maya.now()  *)
(* yields a value chosen by the environment at that read.                  *)
(*                                                                         *)
(* Three specifications run the same actions:                              *)
(*   Spec        the connection lifecycle, with the sync call that         *)
(*               connect makes, under a coarse clock;                      *)
(*   SyncSpec    sync calls on an established Blockchain, under a fine     *)
(*               clock (half seconds up to days);                          *)
(*   ClientSpec  get_contract and wait_for_receipt between the calls of    *)
(*               the lifecycle, connect making no sync call.               *)
(***************************************************************************)
EXTENDS Integers, Sequences, FiniteSets, TLC

-----------------------------------------------------------------------------
(* Bounds of the model *)

\* timeout checks (calls of check_for_timeout) in one sync call
MaxChecks == 3
\* peers in one answer of admin.peers()
MaxPeers == 2
\* calls of provider_process.stop() in one behaviour
MaxStops == 2
\* resolution of the clock: timedelta.seconds drops the sub-second part
TicksPerSecond == 2

-----------------------------------------------------------------------------
(* Program constants *)

NO_BLOCKCHAIN_AVAILABLE == 0
\* check_for_timeout(timeout=30) of the peer-wait loop
PeerTimeout == 30
\* def sync(self, timeout: int = 600)
DefaultTimeout == 600
\* timedelta.seconds lies in 0..86399: whole days are held in .days
SecondsPerDay == 86400

None == "None"

\* Inputs
Processes == {"geth"}
URIs == {"ipc", "http"}
Registries == {"R1"}
Timeouts == {10, DefaultTimeout, SecondsPerDay}
\* Contract names asked of get_contract
Names == {"Foo", "Bar"}
\* wait_for_receipt's timeout argument: <<>> is None, <<t>> is t
ReceiptTimeouts == {<<>>, <<0>>, <<5>>}
\* self.interface.timeout, the default of the interface
InterfaceTimeouts == {60}
\* What waitForTransactionReceipt does: return a receipt or raise
ReceiptOutcomes == {"receipt", "TimeExhausted"}

\* What one peer's head block is to the local node
Heads == {"known", "missing"}
PeerLists == UNION {[1..n -> Heads] : n \in 0..MaxPeers}

\* Time that may pass between two consecutive reads of maya.now(), in ticks
Jumps == {0, 1, TicksPerSecond, PeerTimeout * TicksPerSecond,
          DefaultTimeout * TicksPerSecond, SecondsPerDay * TicksPerSecond}
CoarseJumps == {0, (DefaultTimeout + 1) * TicksPerSecond}

\* Readings of maya.now() at the start of a sync call, in ticks
StartReadings == {0, TicksPerSecond + 1}
CoarseStartReadings == {0}

VARIABLES
    instance,      \* Blockchain._instance: NO_BLOCKCHAIN_AVAILABLE or an object
    heap,          \* the Blockchain objects constructed so far, by identity
    procStarts,    \* calls of provider_process.start()
    procStops,     \* calls of provider_process.stop()
    pc,            \* position of the running sync call, "idle" when none runs
    timeout,       \* sync's timeout argument
    start_time,    \* sync's start_time
    clock,         \* sync's latest reading of maya.now(), in ticks
    checks,        \* calls of check_for_timeout in the sync call
    statusReads,   \* what each read of self.syncing in the sync call gave
    snapshot,      \* the peers the need-detection loop iterated over
    lookups,       \* getBlock calls of the need-detection loop
    needs_sync,    \* sync's needs_sync
    call,          \* the call in progress, or the last call with its outcome
    flip,          \* toggles whenever a call ends
    returned       \* objects connect has returned since the last disconnect

connVars == <<instance, heap, procStarts, procStops>>
syncVars == <<timeout, start_time, clock, checks, statusReads, snapshot,
              lookups, needs_sync>>
histVars == <<call, flip, returned>>
vars == <<connVars, pc, syncVars, histVars>>

-----------------------------------------------------------------------------
(* Records of calls *)

CallRec(op, provider_uri, registry, force) ==
    [op |-> op, provider_uri |-> provider_uri, registry |-> registry,
     force |-> force,
     done |-> FALSE,     \* the call has ended
     fresh |-> FALSE,    \* connect: this call constructed the object
     ret |-> NO_BLOCKCHAIN_AVAILABLE,  \* connect: the object returned
     value |-> "none",   \* sync: "True" or "None"
     error |-> "none",   \* the exception that left the call
     phase |-> "none",   \* sync: the phase the exception was raised in
     provider_process |-> None,  \* connect: the provider_process argument
     full_sync |-> FALSE,        \* connect: the full_sync argument
     steps |-> <<>>,     \* connect: what it called before any sync, in order
     name |-> None,      \* get_contract: the name asked
     given |-> <<>>,     \* wait_for_receipt: the timeout argument
     waits |-> <<>>]     \* wait_for_receipt: the calls made of the node

NoCall == CallRec("none", None, None, TRUE)

\* A Blockchain object: its provider process and its interface's fields.
\* birth is history, what became of the sync call of the connect that made
\* it: "skipped", "running", "ok" or the exception that left it, and
\* "direct" when no connect call made it.
Object(provider_process, provider_uri, registry, birth) ==
    [provider_process |-> provider_process, provider_uri |-> provider_uri,
     registry |-> registry, birth |-> birth]

-----------------------------------------------------------------------------
(* Pure parts of the code *)

\* timedelta.seconds of a non-negative difference of d ticks
Seconds(d) == (d \div TicksPerSecond) % SecondsPerDay

\* check_for_timeout: duration = (last_update - start_time).seconds;
\* raise SyncTimeout if duration > timeout
check_for_timeout(last_update, start, budget) ==
    Seconds(last_update - start) > budget

\* w3.eth.getBlock(peer_block_header) raises BlockNotFound
BlockNotFound(peer) == peer = "missing"

\* Mutant of NeedDetection: the loop goes on after a lookup has failed
NeedDetectionNoBreak(peers, i) ==
    [needs_sync |-> \E k \in i..Len(peers) : BlockNotFound(peers[k]),
     lookups |-> Len(peers)]

\* Mutant of NeedDetection: sync is marked needed when the first lookup
\* succeeds (the except branch taken for an else branch)
NeedDetectionInverted(peers, i) ==
    IF i > Len(peers) THEN [needs_sync |-> FALSE, lookups |-> i - 1]
    ELSE [needs_sync |-> ~BlockNotFound(peers[i]), lookups |-> i]

\* for peer in self.peers: try getBlock ... except BlockNotFound:
\* needs_sync = True; break
RECURSIVE NeedDetection(_, _)
NeedDetection(peers, i) ==
    IF i > Len(peers) THEN [needs_sync |-> FALSE, lookups |-> i - 1]
    ELSE IF BlockNotFound(peers[i]) THEN [needs_sync |-> TRUE, lookups |-> i]
    ELSE NeedDetection(peers, i + 1)

\* if not registry and fetch_registry: from_latest_publication(), and
\* EthereumContractRegistry() when that raises NoConfigurationRoot;
\* else: registry or EthereumContractRegistry()
ResolveRegistry(registry, fetch_registry, noConfigRoot) ==
    IF registry = None /\ fetch_registry
    THEN IF noConfigRoot THEN "empty" ELSE "published"
    ELSE IF registry # None THEN registry ELSE "empty"

\* Mutant of BlockchainInit: the constructor installs self unguarded
BlockchainInitUnguarded(inst, self) == [instance |-> self, raised |-> FALSE]

\* Mutant of BlockchainInit: the constructor tests the slot and never
\* installs self
BlockchainInitKeeps(inst, self) ==
    [instance |-> inst, raised |-> inst # NO_BLOCKCHAIN_AVAILABLE]

\* Blockchain.__init__, the singleton part: install self or raise
BlockchainInit(inst, self) ==
    IF inst = NO_BLOCKCHAIN_AVAILABLE
    THEN [instance |-> self, raised |-> FALSE]
    ELSE [instance |-> inst, raised |-> TRUE]

\* Mutant of Unconnected: connect takes its first branch always
UnconnectedAlways(inst) == TRUE

\* connect's test on cls._instance
Unconnected(inst) == inst = NO_BLOCKCHAIN_AVAILABLE

\* what connect calls, in order, before it installs the new Blockchain:
\* provider_process.start() if a process was passed, InterfaceClass(...),
\* cls(...)
ConnectSteps(provider_process) ==
    (IF provider_process # None THEN <<"start">> ELSE <<>>)
        \o <<"interface", "init">>

\* Mutant of SwapRegistry: the registry of the interface is never replaced
SwapRegistryNever(existing, registry) == existing

\* if registry is not None: cls._instance.interface.registry = registry
SwapRegistry(existing, registry) ==
    IF registry # None THEN registry ELSE existing

\* Mutant of Conflicting: force is not consulted
ConflictingIgnoringForce(provider_uri, existing_uri, force) ==
    /\ provider_uri # None
    /\ existing_uri # provider_uri

\* connect's test for a conflicting provider_uri
Conflicting(provider_uri, existing_uri, force) ==
    /\ provider_uri # None
    /\ existing_uri # provider_uri
    /\ ~force

-----------------------------------------------------------------------------
(* Initial states *)

NoSync ==
    /\ pc = "idle"
    /\ timeout = DefaultTimeout
    /\ start_time = 0
    /\ clock = 0
    /\ checks = 0
    /\ statusReads = <<>>
    /\ snapshot = <<>>
    /\ lookups = 0
    /\ needs_sync = FALSE

\* the class as defined: _instance = NO_BLOCKCHAIN_AVAILABLE
Init ==
    /\ instance = NO_BLOCKCHAIN_AVAILABLE
    /\ heap = <<>>
    /\ procStarts = 0
    /\ procStops = 0
    /\ NoSync
    /\ call = NoCall
    /\ flip = FALSE
    /\ returned = {}

\* after Blockchain.connect(provider_uri="ipc", registry=R1, full_sync=False)
InitSync ==
    /\ instance = 1
    /\ heap = <<Object(None, "ipc", "R1", "skipped")>>
    /\ procStarts = 0
    /\ procStops = 0
    /\ NoSync
    /\ call = [CallRec("connect", "ipc", "R1", TRUE)
                 EXCEPT !.done = TRUE, !.fresh = TRUE, !.ret = 1,
                        !.steps = <<"interface", "init">>]
    /\ flip = TRUE
    /\ returned = {1}

-----------------------------------------------------------------------------
(* How a call begins and ends *)

\* a call that makes no sync call ends with record c
Ends(c) ==
    /\ call' = [c EXCEPT !.done = TRUE]
    /\ flip' = ~flip

\* The variables of sync keep the values the latest sync call left until
\* the next call begins
ForgetSync ==
    /\ pc' = "idle"
    /\ timeout' = DefaultTimeout
    /\ start_time' = 0
    /\ clock' = 0
    /\ checks' = 0
    /\ statusReads' = <<>>
    /\ snapshot' = <<>>
    /\ lookups' = 0
    /\ needs_sync' = FALSE

\* sync(timeout=t): now = maya.now(); start_time = now
SyncBegin(t, c, S) ==
    /\ pc' = "peer_wait"
    /\ timeout' = t
    /\ \E now \in S : start_time' = now /\ clock' = now
    /\ checks' = 0
    /\ statusReads' = <<>>
    /\ snapshot' = <<>>
    /\ lookups' = 0
    /\ needs_sync' = FALSE
    /\ call' = c
    /\ flip' = flip

\* sync returns v; when connect called it, connect returns cls._instance
SyncReturns(v) ==
    /\ pc' = "idle"
    /\ flip' = ~flip
    /\ IF call.op = "connect"
       THEN /\ call' = [call EXCEPT !.done = TRUE, !.ret = instance,
                                    !.value = v]
            /\ returned' = returned \cup {instance}
            /\ heap' = [heap EXCEPT ![instance].birth = "ok"]
       ELSE /\ call' = [call EXCEPT !.done = TRUE, !.value = v]
            /\ UNCHANGED <<returned, heap>>
    /\ UNCHANGED <<instance, procStarts, procStops>>

\* exception e leaves sync, and leaves connect when connect called it
SyncRaises(e, phase) ==
    /\ pc' = "idle"
    /\ flip' = ~flip
    /\ call' = [call EXCEPT !.done = TRUE, !.error = e, !.phase = phase]
    /\ heap' = IF call.op = "connect"
               THEN [heap EXCEPT ![instance].birth = e]
               ELSE heap
    /\ UNCHANGED <<instance, procStarts, procStops, returned>>

\* sync goes on at position p
SyncGoes(p) ==
    /\ pc' = p
    /\ UNCHANGED <<connVars, histVars>>

-----------------------------------------------------------------------------
(* Blockchain.connect                                                      *)
(* deployer, compile and poa choose the class, the compiler and the        *)
(* middleware of the interface a new Blockchain gets (lines 170-176); the  *)
(* existing branch never reads them, and nothing modelled here depends on  *)
(* them, so the interface is held by its provider_uri and registry alone.  *)

\* the branch taken when no Blockchain exists
ConnectNew(c, provider_process, provider_uri, registry, fetch_registry, full_sync, noConfigRoot, S) ==
    LET self == Len(heap) + 1
        init == BlockchainInit(instance, self)
        reg  == ResolveRegistry(registry, fetch_registry, noConfigRoot)
        obj  == Object(provider_process, provider_uri, reg,
                       IF full_sync THEN "running" ELSE "skipped")
        d    == [c EXCEPT !.steps = ConnectSteps(provider_process)]
    IN  /\ procStarts' = IF provider_process # None
                         THEN procStarts + 1 ELSE procStarts
        /\ procStops' = procStops
        /\ instance' = init.instance
        /\ IF init.raised
           THEN /\ heap' = heap
                /\ Ends([d EXCEPT !.error = "RuntimeError"])
                /\ ForgetSync
                /\ UNCHANGED returned
           ELSE /\ heap' = Append(heap, obj)
                /\ IF full_sync
                   THEN /\ SyncBegin(DefaultTimeout,
                                     [d EXCEPT !.fresh = TRUE], S)
                        /\ UNCHANGED returned
                   ELSE /\ Ends([d EXCEPT !.fresh = TRUE, !.ret = self])
                        /\ returned' = returned \cup {self}
                        /\ ForgetSync

\* Mutant of ConnectExisting: the registry is swapped before the
\* provider_uri is compared
ConnectExistingRegistryFirst(c, provider_uri, registry, force) ==
    LET existing_uri == heap[instance].provider_uri
    IN  /\ heap' = IF registry # None
                   THEN [heap EXCEPT ![instance].registry = registry]
                   ELSE heap
        /\ ForgetSync
        /\ UNCHANGED <<instance, procStarts, procStops>>
        /\ IF Conflicting(provider_uri, existing_uri, force)
           THEN /\ Ends([c EXCEPT !.error = "ValueError"])
                /\ UNCHANGED returned
           ELSE /\ Ends([c EXCEPT !.ret = instance])
                /\ returned' = returned \cup {instance}

\* the branch taken when a Blockchain exists
ConnectExisting(c, provider_uri, registry, force) ==
    LET existing_uri == heap[instance].provider_uri
    IN  IF Conflicting(provider_uri, existing_uri, force)
        THEN /\ Ends([c EXCEPT !.error = "ValueError"])
             /\ ForgetSync
             /\ UNCHANGED <<connVars, returned>>
        ELSE /\ heap' = [heap EXCEPT ![instance].registry
                                         = SwapRegistry(@, registry)]
             /\ Ends([c EXCEPT !.ret = instance])
             /\ returned' = returned \cup {instance}
             /\ ForgetSync
             /\ UNCHANGED <<instance, procStarts, procStops>>

connect(provider_process, provider_uri, registry, force, fetch_registry, full_sync, noConfigRoot, S) ==
    /\ pc = "idle"
    /\ LET c == [CallRec("connect", provider_uri, registry, force)
                   EXCEPT !.provider_process = provider_process,
                          !.full_sync = full_sync]
       IN  IF Unconnected(instance)
           THEN ConnectNew(c, provider_process, provider_uri, registry,
                           fetch_registry, full_sync, noConfigRoot, S)
           ELSE ConnectExisting(c, provider_uri, registry, force)

\* a connect call, full_sync drawn from FullSyncs
ConnectWith(FullSyncs) ==
    \E provider_process \in Processes \cup {None},
       provider_uri \in URIs \cup {None},
       registry \in Registries \cup {None},
       force \in BOOLEAN, fetch_registry \in BOOLEAN,
       full_sync \in FullSyncs :
      \* from_latest_publication() has an outcome only when it is called
      \E noConfigRoot \in IF Unconnected(instance) /\ registry = None
                              /\ fetch_registry
                           THEN BOOLEAN ELSE {FALSE} :
        connect(provider_process, provider_uri, registry, force,
                fetch_registry, full_sync, noConfigRoot, CoarseStartReadings)

Connect == ConnectWith(BOOLEAN)

-----------------------------------------------------------------------------
(* Blockchain(provider_process, interface): direct construction *)

construct(provider_process, provider_uri, registry) ==
    /\ pc = "idle"
    /\ LET self == Len(heap) + 1
           init == BlockchainInit(instance, self)
           obj  == Object(provider_process, provider_uri, registry, "direct")
           c    == CallRec("construct", provider_uri, registry, TRUE)
       IN  /\ instance' = init.instance
           /\ IF init.raised
              THEN /\ heap' = heap
                   /\ Ends([c EXCEPT !.error = "RuntimeError"])
              ELSE /\ heap' = Append(heap, obj)
                   /\ Ends([c EXCEPT !.fresh = TRUE, !.ret = self])
    /\ ForgetSync
    /\ UNCHANGED <<procStarts, procStops, returned>>

Construct ==
    \E provider_process \in Processes \cup {None},
       provider_uri \in URIs \cup {None}, registry \in Registries :
        construct(provider_process, provider_uri, registry)

-----------------------------------------------------------------------------
(* Blockchain.disconnect *)

\* Mutant of DisconnectStops: the test on cls._instance is missing
DisconnectStopsUnguarded(inst, objs) ==
    \/ inst = NO_BLOCKCHAIN_AVAILABLE
    \/ objs[inst].provider_process # None

\* if cls._instance is not NO_BLOCKCHAIN_AVAILABLE:
\*     if cls._instance.__provider_process:
DisconnectStops(inst, objs) ==
    /\ inst # NO_BLOCKCHAIN_AVAILABLE
    /\ objs[inst].provider_process # None

\* cls._instance after disconnect: the code assigns nothing to it
DisconnectLeaves(inst) == inst

Disconnect ==
    /\ pc = "idle"
    /\ IF DisconnectStops(instance, heap)
       THEN /\ procStops < MaxStops
            /\ procStops' = procStops + 1
       ELSE procStops' = procStops
    /\ instance' = DisconnectLeaves(instance)
    /\ Ends(CallRec("disconnect", None, None, TRUE))
    /\ returned' = {}
    /\ ForgetSync
    /\ UNCHANGED <<heap, procStarts>>

-----------------------------------------------------------------------------
(* Blockchain.get_contract and Blockchain.wait_for_receipt *)

\* What the registries hold: the handle stored under a name, None for no
\* entry. R1 is the registry callers pass; "published" and "empty" are the
\* registries connect resolves for itself.
Stored(registry, name) ==
    IF registry = "R1" /\ name = "Foo" THEN "Foo of R1"
    ELSE IF registry = "published" /\ name = "Foo" THEN "Foo of published"
    ELSE IF registry = "published" /\ name = "Bar" THEN "Bar of published"
    ELSE None

\* BlockchainInterface.get_contract_by_name on an interface holding registry
get_contract_by_name(registry, name) ==
    IF Stored(registry, name) = None
    THEN [value |-> "none", error |-> "UnknownContract"]
    ELSE [value |-> Stored(registry, name), error |-> "none"]

\* Mutant of get_contract: the name is resolved in the published registry,
\* whatever registry the interface of self holds
get_contractPublished(self, name) ==
    /\ pc = "idle"
    /\ LET r == get_contract_by_name("published", name)
           c == [CallRec("get_contract", None, None, TRUE) EXCEPT !.name = name]
       IN  Ends([c EXCEPT !.value = r.value, !.error = r.error])
    /\ ForgetSync
    /\ UNCHANGED <<connVars, returned>>

\* return self.__interface.get_contract_by_name(name)
get_contract(self, name) ==
    /\ pc = "idle"
    /\ LET r == get_contract_by_name(heap[self].registry, name)
           c == [CallRec("get_contract", None, None, TRUE) EXCEPT !.name = name]
       IN  Ends([c EXCEPT !.value = r.value, !.error = r.error])
    /\ ForgetSync
    /\ UNCHANGED <<connVars, returned>>

GetContract ==
    \E self \in 1..Len(heap), name \in Names : get_contract(self, name)

\* Mutant of ReceiptTimeout: timeout or self.interface.timeout
ReceiptTimeoutFalsy(timeout_arg, interface_timeout) ==
    IF timeout_arg # <<>> /\ timeout_arg[1] # 0
    THEN timeout_arg[1] ELSE interface_timeout

\* timeout = timeout if timeout is not None else self.interface.timeout
ReceiptTimeout(timeout_arg, interface_timeout) ==
    IF timeout_arg # <<>> THEN timeout_arg[1] ELSE interface_timeout

\* result = self.__interface.w3.eth.waitForTransactionReceipt(txhash,
\* timeout=timeout); return result
wait_for_receipt(self, timeout_arg, interface_timeout, outcome) ==
    /\ pc = "idle"
    /\ LET t == ReceiptTimeout(timeout_arg, interface_timeout)
           c == [CallRec("wait_for_receipt", None, None, TRUE)
                   EXCEPT !.given = timeout_arg,
                          !.waits = <<[timeout |-> t, outcome |-> outcome]>>]
       IN  IF outcome = "TimeExhausted"
           THEN Ends([c EXCEPT !.error = outcome])
           ELSE Ends([c EXCEPT !.value = outcome])
    /\ ForgetSync
    /\ UNCHANGED <<connVars, returned>>

WaitForReceipt ==
    \E self \in 1..Len(heap), timeout_arg \in ReceiptTimeouts,
       interface_timeout \in InterfaceTimeouts, outcome \in ReceiptOutcomes :
        wait_for_receipt(self, timeout_arg, interface_timeout, outcome)

-----------------------------------------------------------------------------
(* Blockchain.sync *)

\* the peers and syncing properties raise ConnectionNotEstablished
\* when no Blockchain is installed
NotEstablished == instance = NO_BLOCKCHAIN_AVAILABLE

\* the budget of the peer-wait loop's check: check_for_timeout(timeout=30)
PeerBudget(t) == PeerTimeout

\* the budget of the other checks: check_for_timeout()
OverallBudget(t) == t

\* a direct call self.sync(timeout=t) on the installed object
sync(t, S) ==
    /\ pc = "idle"
    /\ instance # NO_BLOCKCHAIN_AVAILABLE
    /\ SyncBegin(t, CallRec("sync", None, None, TRUE), S)
    /\ UNCHANGED <<connVars, returned>>

Sync == \E t \in Timeouts : sync(t, StartReadings)

\* while not self.peers:
PeerWait ==
    /\ pc = "peer_wait"
    /\ \E peers \in PeerLists :
        IF NotEstablished
        THEN SyncRaises("ConnectionNotEstablished", "peer_wait")
        ELSE IF peers = <<>> THEN SyncGoes("peer_now")
                             ELSE SyncGoes("need_detection")
    /\ UNCHANGED syncVars

\* time.sleep(d); then in check_for_timeout: last_update = maya.now()
ReadNow(at, next, J) ==
    /\ pc = at
    /\ checks < MaxChecks
    /\ \E j \in J : clock' = clock + j
    /\ checks' = checks + 1
    /\ SyncGoes(next)
    /\ UNCHANGED <<timeout, start_time, statusReads, snapshot, lookups,
                   needs_sync>>

\* in check_for_timeout: duration = (last_update - start_time).seconds;
\* if duration > timeout: raise self.SyncTimeout
TimeoutCheck(at, phase, budget, back) ==
    /\ pc = at
    /\ IF check_for_timeout(clock, start_time, budget)
       THEN SyncRaises("SyncTimeout", phase)
       ELSE SyncGoes(back)
    /\ UNCHANGED syncVars

\* time.sleep(0); check_for_timeout(timeout=30)
PeerNow(J) == ReadNow("peer_now", "peer_check", J)
PeerCheck ==
    TimeoutCheck("peer_check", "peer_wait", PeerBudget(timeout), "peer_wait")

\* needs_sync = False; for peer in self.peers: ...
DetectNeed ==
    /\ pc = "need_detection"
    /\ \E peers \in PeerLists :
        IF NotEstablished
        THEN /\ SyncRaises("ConnectionNotEstablished", "need_detection")
             /\ UNCHANGED <<snapshot, lookups, needs_sync>>
        ELSE LET d == NeedDetection(peers, 1)
             IN  /\ snapshot' = peers
                 /\ lookups' = d.lookups
                 /\ needs_sync' = d.needs_sync
                 /\ SyncGoes("decide")
    /\ UNCHANGED <<timeout, start_time, clock, checks, statusReads>>

\* if needs_sync: ... ; otherwise the function ends and returns None
Decide ==
    /\ pc = "decide"
    /\ IF needs_sync
       THEN SyncGoes("start_wait")
       ELSE SyncReturns("None")
    /\ UNCHANGED syncVars

\* a read of self.syncing that gives s
ReadsStatus(s) ==
    /\ statusReads' = Append(statusReads, s)
    /\ UNCHANGED <<timeout, start_time, clock, checks, snapshot, lookups,
                   needs_sync>>

\* Mutant of AfterStartWait: the loop is left whatever the status
AfterStartWaitLeaves(s) == "progress"

\* where the start-wait loop goes when self.syncing gives s
AfterStartWait(s) == IF s THEN "progress" ELSE "start_now"

\* peers = len(self.peers) (first pass only); while not self.syncing:
StartWait ==
    /\ pc = "start_wait"
    /\ \E s \in BOOLEAN :
        IF NotEstablished
        THEN SyncRaises("ConnectionNotEstablished", "start_wait")
             /\ UNCHANGED syncVars
        ELSE ReadsStatus(s) /\ SyncGoes(AfterStartWait(s))

\* time.sleep(0); check_for_timeout()
StartNow(J) == ReadNow("start_now", "start_check", J)
StartCheck ==
    TimeoutCheck("start_check", "start_wait", OverallBudget(timeout),
                 "start_wait")

\* while self.syncing: ... return True
Progress ==
    /\ pc = "progress"
    /\ \E s \in BOOLEAN :
        IF NotEstablished
        THEN SyncRaises("ConnectionNotEstablished", "progress")
             /\ UNCHANGED syncVars
        ELSE /\ ReadsStatus(s)
             /\ IF s THEN SyncGoes("read_current") ELSE SyncReturns("True")

\* self.syncing['currentBlock'] and self.syncing['highestBlock']: each reads
\* the status anew, and subscripting the value False raises TypeError
ReadStatusField(at, next) ==
    /\ pc = at
    /\ \E s \in BOOLEAN :
        IF NotEstablished
        THEN SyncRaises("ConnectionNotEstablished", "progress")
             /\ UNCHANGED syncVars
        ELSE /\ ReadsStatus(s)
             /\ IF s THEN SyncGoes(next)
                     ELSE SyncRaises("TypeError", "progress")

\* current = self.syncing['currentBlock']
ReadCurrent == ReadStatusField("read_current", "read_highest")

\* total = self.syncing['highestBlock']
ReadHighest == ReadStatusField("read_highest", "progress_now")

\* time.sleep(1); check_for_timeout()
ProgressNow(J) ==
    ReadNow("progress_now", "progress_check",
            {j \in J : j >= TicksPerSecond})

\* Mutant of ProgressCheck: after the check the start-wait loop is resumed
ProgressCheckResumesStartWait ==
    TimeoutCheck("progress_check", "progress", OverallBudget(timeout),
                 "start_wait")

\* check_for_timeout() of the progress loop
ProgressCheck ==
    TimeoutCheck("progress_check", "progress", OverallBudget(timeout),
                 "progress")

\* the steps of a running sync call, the clock moving by the jumps J
SyncStep(J) ==
    \/ PeerWait
    \/ PeerNow(J)
    \/ PeerCheck
    \/ DetectNeed
    \/ Decide
    \/ StartWait
    \/ StartNow(J)
    \/ StartCheck
    \/ Progress
    \/ ReadCurrent
    \/ ReadHighest
    \/ ProgressNow(J)
    \/ ProgressCheck

-----------------------------------------------------------------------------
Next ==
    \/ Connect
    \/ Construct
    \/ Disconnect
    \/ SyncStep(CoarseJumps)

Spec == Init /\ [][Next]_vars

NextSync ==
    \/ Sync
    \/ SyncStep(Jumps)

SyncSpec == InitSync /\ [][NextSync]_vars

NextClient ==
    \/ ConnectWith({FALSE})
    \/ Construct
    \/ Disconnect
    \/ GetContract
    \/ WaitForReceipt

ClientSpec == Init /\ [][NextClient]_vars

-----------------------------------------------------------------------------
(* Properties *)

Elapsed == clock - start_time
AllKnown(peers) == \A i \in 1..Len(peers) : peers[i] = "known"
\* this step ends a call of operation op
EndsCall(op) == flip' # flip /\ call'.op = op
Established == instance # NO_BLOCKCHAIN_AVAILABLE

\* C1: at most one Blockchain object exists, and every connect call that
\* returns since the last disconnect returns that one object, the installed
\* singleton. (The code keeps this across disconnect calls too.)
SingleInstance ==
    /\ Len(heap) <= 1
    /\ returned \subseteq {instance} \ {NO_BLOCKCHAIN_AVAILABLE}
    /\ (call.done /\ call.op = "connect" /\ call.error = "none")
           => (call.ret = instance /\ call.ret \in returned)

\* C1 witness: a connect call has returned the object an earlier connect
\* call constructed
SingleInstanceWitness ==
    /\ call.done /\ call.op = "connect" /\ call.error = "none"
    /\ ~call.fresh
    /\ call.ret = 1
    /\ heap[1].birth = "ok"

\* C2: connect on an existing Blockchain with a provider_uri other than the
\* existing one and force=False raises the conflicting-connection error
\* (ValueError) and leaves the singleton, its provider process, its
\* provider_uri and its registry as they were, whatever registry was passed.
ConflictLeavesConnection ==
    [][(/\ pc = "idle"
        /\ Established
        /\ EndsCall("connect")
        /\ call'.provider_uri # None
        /\ call'.provider_uri # heap[instance].provider_uri
        /\ ~call'.force)
       => (/\ call'.error = "ValueError"
           /\ call'.ret = NO_BLOCKCHAIN_AVAILABLE
           /\ instance' = instance
           /\ heap' = heap
           /\ procStarts' = procStarts
           /\ procStops' = procStops)]_vars

\* C2 witness: a conflicting connect call that passed a registry has raised
ConflictWitness ==
    /\ call.done /\ call.op = "connect" /\ call.error = "ValueError"
    /\ call.registry # None
    /\ call.registry # heap[instance].registry

\* C3: connect on an existing Blockchain with force=True and a provider_uri
\* other than the existing one raises nothing, returns the existing object
\* and leaves its provider process and provider_uri as they were; it starts
\* no process and runs no sync.
ForceKeepsBinding ==
    [][(/\ pc = "idle"
        /\ Established
        /\ EndsCall("connect")
        /\ call'.provider_uri # None
        /\ call'.provider_uri # heap[instance].provider_uri
        /\ call'.force)
       => (/\ call'.error = "none"
           /\ call'.ret = instance
           /\ instance' = instance
           /\ Len(heap') = Len(heap)
           /\ heap'[instance].provider_uri = heap[instance].provider_uri
           /\ heap'[instance].provider_process
                  = heap[instance].provider_process
           /\ procStarts' = procStarts
           /\ pc' = "idle"
           /\ checks' = 0)]_vars

\* C3 witness: a forced connect call with another provider_uri has returned
ForceWitness ==
    /\ call.done /\ call.op = "connect" /\ call.error = "none"
    /\ ~call.fresh
    /\ call.force
    /\ call.provider_uri # None
    /\ call.provider_uri # heap[instance].provider_uri

\* C4 (as claimed): disconnect on an established connection clears the
\* singleton, and the connect call that follows constructs a new object.
DisconnectClears ==
    [][/\ (Established /\ EndsCall("disconnect"))
              => instance' = NO_BLOCKCHAIN_AVAILABLE
       /\ (call.done /\ call.op = "disconnect" /\ call'.op = "connect")
              => (/\ call'.fresh
                  /\ Len(heap') = Len(heap) + 1
                  /\ instance' = Len(heap'))]_vars

\* C5: disconnect when no Blockchain exists raises nothing, stops no
\* process and leaves the singleton slot empty.
DisconnectNoop ==
    [][(pc = "idle" /\ ~Established /\ EndsCall("disconnect"))
       => (/\ call'.error = "none"
           /\ procStops' = procStops
           /\ procStarts' = procStarts
           /\ instance' = NO_BLOCKCHAIN_AVAILABLE
           /\ heap' = heap)]_vars

\* C5 witness: disconnect has been called and returned with no Blockchain
DisconnectNoopWitness ==
    /\ call.done /\ call.op = "disconnect" /\ call.error = "none"
    /\ ~Established

\* C6 (as claimed): with no peers reported, the peer-wait phase raises
\* SyncTimeout once the time since sync began exceeds 30 seconds, and never
\* while it is 30 seconds or less, whatever the timeout argument: no
\* peer-wait check raises at 30 seconds or less, and the loop does not go on
\* past a check made later than that.
PeerWaitTimesOutAt30 ==
    /\ (call.done /\ call.error = "SyncTimeout" /\ call.phase = "peer_wait")
           => Elapsed > PeerTimeout * TicksPerSecond
    /\ (~call.done /\ pc \in {"peer_wait", "peer_now"})
           => Elapsed <= PeerTimeout * TicksPerSecond

\* C7: when every peer of the need-detection snapshot has a known head
\* block, sync returns at once: it never reads self.syncing, raises nothing
\* and returns None, not True.
NoSyncNeededReturnsAtOnce ==
    [][(pc = "decide" /\ AllKnown(snapshot))
       => (/\ pc' = "idle"
           /\ call'.done
           /\ call'.error = "none"
           /\ call'.value = "None"
           /\ statusReads = <<>>
           /\ statusReads' = <<>>)]_vars

\* C7 witness: sync has returned None on a snapshot of known peers
NoSyncNeededWitness ==
    /\ call.done /\ call.op = "sync" /\ call.value = "None"
    /\ snapshot # <<>>
    /\ AllKnown(snapshot)
    /\ statusReads = <<>>

\* C8: sync returns True only when a peer's head block was missing and
\* self.syncing was read active at least once and inactive at the last read;
\* when the first read is active and the second inactive, sync returns True
\* after exactly those two reads.
SyncTrueAfterActiveThenInactive ==
    /\ (call.done /\ call.value = "True")
           => (/\ needs_sync
               /\ ~AllKnown(snapshot)
               /\ Len(statusReads) >= 2
               /\ ~statusReads[Len(statusReads)]
               /\ \E i \in 1..(Len(statusReads) - 1) : statusReads[i])
    /\ (Len(statusReads) >= 2 /\ statusReads[1] /\ ~statusReads[2])
           => (/\ Len(statusReads) = 2
               /\ call.done
               /\ call.error = "none"
               /\ call.value = "True")

\* C8 witness: sync has returned True after one active and one inactive read
SyncTrueWitness ==
    /\ call.done /\ call.op = "sync" /\ call.value = "True"
    /\ statusReads = <<TRUE, FALSE>>

\* C9 (as claimed): a sync call ends in a normal return or in SyncTimeout.
SyncEndsInReturnOrTimeout ==
    (call.done /\ call.op = "sync") => call.error \in {"none", "SyncTimeout"}

\* C10 (as claimed): a connect call whose sync raised SyncTimeout leaves no
\* Blockchain installed, and no connect call returns an object whose
\* creating connect call ended in SyncTimeout.
NoPartialConnection ==
    /\ (call.done /\ call.op = "connect" /\ call.error = "SyncTimeout")
           => ~Established
    /\ (call.done /\ call.op = "connect" /\ call.error = "none")
           => heap[call.ret].birth # "SyncTimeout"

\* this step is a call of operation op, begun where no call is running
Calls(op) ==
    /\ pc = "idle"
    /\ call'.op = op
    /\ <<call', flip'>> # <<call, flip>>

\* C11: a connect call on an existing Blockchain that raises nothing returns
\* the existing object; the registry of its interface becomes the registry
\* passed, and stays what it was when none was passed; its provider_uri, its
\* provider process and the singleton are unchanged, and no object is made.
RegistrySwappedInPlace ==
    [][(Calls("connect") /\ Established /\ call'.error = "none")
       => (/\ call'.done
           /\ call'.ret = instance
           /\ instance' = instance
           /\ Len(heap') = Len(heap)
           /\ heap'[instance].registry
                  = IF call'.registry # None THEN call'.registry
                                             ELSE heap[instance].registry
           /\ heap'[instance].provider_uri = heap[instance].provider_uri
           /\ heap'[instance].provider_process
                  = heap[instance].provider_process
           /\ procStarts' = procStarts
           /\ procStops' = procStops)]_vars

\* C11 witness: a connect call passing a registry has returned the existing
\* object, whose interface now holds that registry
RegistrySwappedWitness ==
    /\ call.done /\ call.op = "connect" /\ call.error = "none"
    /\ ~call.fresh
    /\ call.registry # None
    /\ call.ret = instance
    /\ heap[instance].registry = call.registry
    /\ heap[instance].birth = "ok"

\* what get_contract gave for the name asked is what registry holds under it
ResolvedIn(registry, c) ==
    IF Stored(registry, c.name) = None
    THEN c.error = "UnknownContract" /\ c.value = "none"
    ELSE c.error = "none" /\ c.value = Stored(registry, c.name)

\* C12: get_contract(name) gives the handle the registry now held by the
\* interface stores under name, and raises UnknownContract when that registry
\* has no entry for it; after a connect call that passed a registry to an
\* existing Blockchain the name is resolved in the registry passed; and
\* neither get_contract nor wait_for_receipt changes the registry held.
ContractFromBoundRegistry ==
    [][/\ Calls("get_contract")
              => (call'.done /\ ResolvedIn(heap[instance].registry, call'))
       /\ (/\ Calls("get_contract")
           /\ call.done /\ call.op = "connect" /\ call.error = "none"
           /\ ~call.fresh /\ call.registry # None)
              => ResolvedIn(call.registry, call')
       /\ (Calls("get_contract") \/ Calls("wait_for_receipt"))
              => (heap' = heap /\ instance' = instance)]_vars

\* C12 witness: a name the published registry holds was asked of a
\* Blockchain whose registry is R1, and UnknownContract was raised
ContractWitness ==
    /\ call.done /\ call.op = "get_contract"
    /\ call.name = "Bar"
    /\ call.error = "UnknownContract"
    /\ heap[instance].registry = "R1"
    /\ heap[instance].birth = "skipped"

\* C13: wait_for_receipt makes one call of the node; the timeout of that
\* call is the timeout argument whenever one was passed, 0 included, and the
\* timeout of the interface only when none was passed; the receipt the node
\* gives is returned as it is and its TimeExhausted leaves the call.
ReceiptWaitFaithful ==
    (call.done /\ call.op = "wait_for_receipt")
        => (/\ Len(call.waits) = 1
            /\ IF call.given # <<>>
               THEN call.waits[1].timeout = call.given[1]
               ELSE call.waits[1].timeout \in InterfaceTimeouts
            /\ IF call.waits[1].outcome = "TimeExhausted"
               THEN call.error = "TimeExhausted" /\ call.value = "none"
               ELSE call.error = "none"
                    /\ call.value = call.waits[1].outcome)

\* C13 witness: wait_for_receipt(txhash, timeout=0) has waited with timeout 0
\* and the node's TimeExhausted has left the call
ReceiptWaitWitness ==
    /\ call.done /\ call.op = "wait_for_receipt"
    /\ call.given = <<0>>
    /\ call.waits[1].timeout = 0
    /\ call.error = "TimeExhausted"

\* C14 (as claimed): disconnect on a Blockchain that has a provider process
\* calls stop() on it, disconnect on one that has none calls no stop(), and
\* over the connect and disconnect calls made (no Blockchain constructed
\* directly) stop() is called at most once for each call of start().
StopsAtMostOncePerStart ==
    [][/\ (Calls("disconnect") /\ Established)
              => procStops' = IF heap[instance].provider_process # None
                              THEN procStops + 1 ELSE procStops
       /\ (\A i \in 1..Len(heap') : heap'[i].birth # "direct")
              => procStops' <= procStarts']_vars

\* C19: provider_process.start() is called only by a connect call made when
\* no Blockchain exists, once, as the first thing such a call does when it
\* was passed a process: before the interface is constructed, before the
\* object is, and before any step of sync. A connect call on an existing
\* Blockchain starts no process and runs no sync, full_sync or not.
ProcessStartedOnCreationOnly ==
    [][/\ procStarts' # procStarts
              => (/\ Calls("connect")
                  /\ ~Established
                  /\ call'.provider_process # None)
       /\ (Calls("connect") /\ ~Established)
              => (/\ procStarts' = IF call'.provider_process # None
                                   THEN procStarts + 1 ELSE procStarts
                  /\ call'.steps = IF call'.provider_process # None
                                   THEN <<"start", "interface", "init">>
                                   ELSE <<"interface", "init">>
                  /\ heap'[instance'].provider_process
                         = call'.provider_process
                  /\ pc' = IF call'.full_sync THEN "peer_wait" ELSE "idle"
                  /\ checks' = 0
                  /\ statusReads' = <<>>)
       /\ (Calls("connect") /\ Established)
              => (/\ procStarts' = procStarts
                  /\ call'.steps = <<>>
                  /\ call'.done
                  /\ pc' = "idle")]_vars

\* C19 witness: a connect call passing a process and full_sync=True has
\* returned the existing Blockchain, which has no process, and no process
\* was ever started
NoStartOnExistingWitness ==
    /\ call.done /\ call.op = "connect" /\ call.error = "none"
    /\ ~call.fresh
    /\ call.provider_process # None
    /\ call.full_sync
    /\ heap[call.ret].provider_process = None
    /\ procStarts = 0

\* C20: constructing a Blockchain directly while one is installed raises
\* RuntimeError and leaves the installed one in the slot; constructing one
\* while none is installed installs it, and the connect call that follows
\* makes no other object and returns the constructed one when it raises
\* nothing.
DirectConstructionGuarded ==
    [][/\ (Calls("construct") /\ Established)
              => (/\ call'.error = "RuntimeError"
                  /\ instance' = instance
                  /\ heap' = heap)
       /\ (Calls("construct") /\ ~Established)
              => (/\ call'.error = "none"
                  /\ Len(heap') = Len(heap) + 1
                  /\ instance' = Len(heap')
                  /\ call'.ret = instance')
       /\ (/\ Calls("connect")
           /\ call.done /\ call.op = "construct" /\ call.error = "none")
              => (/\ call'.done
                  /\ ~call'.fresh
                  /\ Len(heap') = Len(heap)
                  /\ instance' = call.ret
                  /\ call'.error \in {"none", "ValueError"}
                  /\ call'.error = "none" => call'.ret = call.ret)]_vars

\* C20 witness: a connect call has returned a Blockchain that was
\* constructed directly
ConnectReturnsConstructedWitness ==
    /\ call.done /\ call.op = "connect" /\ call.error = "none"
    /\ ~call.fresh
    /\ call.ret = instance
    /\ heap[call.ret].birth = "direct"

\* the phase of sync a position lies in: 1 peer-wait, 2 need-detection,
\* 3 start-wait, 4 progress
PhaseOf(p) ==
    IF p \in {"peer_wait", "peer_now", "peer_check"} THEN 1
    ELSE IF p \in {"need_detection", "decide"} THEN 2
    ELSE IF p \in {"start_wait", "start_now", "start_check"} THEN 3
    ELSE 4

\* C15: a sync call begins in the peer-wait phase, and each of its steps
\* stays in its phase or goes on to the next one: peer-wait, need-detection,
\* start-wait, progress. No step goes back to an earlier phase, and
\* need-detection is run once, entered from the peer-wait loop's condition.
PhasesInOrder ==
    [][/\ (pc = "idle" /\ pc' # "idle") => pc' = "peer_wait"
       /\ (pc # "idle" /\ pc' # "idle")
              => (/\ PhaseOf(pc') >= PhaseOf(pc)
                  /\ PhaseOf(pc') <= PhaseOf(pc) + 1)
       /\ pc' = "need_detection" => pc = "peer_wait"
       /\ pc = "need_detection" => pc' \in {"decide", "idle"}]_vars

\* C15 witness: the progress loop is at its condition again after the
\* peer-wait loop and the start-wait loop each went round
PhasesWitness ==
    /\ pc = "progress"
    /\ checks >= 3
    /\ Len(statusReads) >= 5
    /\ ~statusReads[1]
    /\ statusReads[Len(statusReads)]

\* whole seconds passed since start_time at the latest reading of the clock
ElapsedSeconds == Elapsed \div TicksPerSecond

\* C16 (as claimed): start_time is set once in a sync call, and every check
\* of the start-wait and progress loops raises SyncTimeout when the time
\* passed since start_time, whichever phase it was spent in, exceeds the
\* timeout argument, and lets the loop go on when it does not.
ChecksMeasureFromStart ==
    [][/\ pc # "idle" => start_time' = start_time
       /\ pc \in {"start_check", "progress_check"}
              => IF ElapsedSeconds > timeout
                 THEN call'.done /\ call'.error = "SyncTimeout"
                 ELSE ~call'.done /\ pc' # "idle"]_vars

\* the running sync call has passed a check of its overall budget at the
\* latest reading of the clock
PassedOverallCheck ==
    \/ pc = "start_wait" /\ Len(statusReads) >= 1
    \/ pc = "progress" /\ Len(statusReads) >= 2

\* C17 (as claimed, in the finite form of its case of a budget of a day or
\* longer): a sync call that is needed, whose node has reported no active
\* sync so far, or nothing but an active sync, and whose budget is a day or
\* more, ends in SyncTimeout at the first check made later than timeout
\* seconds after its start: it is not running after such a check. (With
\* such a budget no later check raises either: Seconds(d) is less than
\* SecondsPerDay for every d.)
SyncEndsOnceBudgetSpent ==
    (/\ PassedOverallCheck
     /\ timeout >= SecondsPerDay
     /\ \/ \A i \in 1..Len(statusReads) : ~statusReads[i]
        \/ \A i \in 1..Len(statusReads) : statusReads[i])
        => ElapsedSeconds <= timeout

\* C18: need-detection raises no BlockNotFound; sync is marked needed if and
\* only if some peer of the snapshot has a head block the node does not know;
\* the lookups are made in the order of the snapshot and end with the first
\* that fails, or with the last peer when none fails.
NeedDetectionStopsAtFirstMissing ==
    /\ call.error # "BlockNotFound"
    /\ needs_sync <=> \E i \in 1..Len(snapshot) : snapshot[i] = "missing"
    /\ lookups <= Len(snapshot)
    /\ \A i \in 1..(lookups - 1) : snapshot[i] = "known"
    /\ needs_sync => snapshot[lookups] = "missing"
    /\ ~needs_sync => lookups = Len(snapshot)

\* C18 witness: the first peer's head block was missing, a peer came after
\* it, and one lookup was made
FirstMissingWitness ==
    /\ pc = "start_wait"
    /\ Len(snapshot) >= 2
    /\ snapshot[1] = "missing"
    /\ lookups = 1
    /\ needs_sync

====
